---------------------------- MODULE Spec2Model ----------------------------
(***************************************************************************)
(* Healthcare query system: the query interpreter (nlp_processor.py) and   *)
(* the synthetic record generator (fhir_simulator.py).                     *)
(*                                                                         *)
(* A text is a sequence of one-character strings, so that substring tests, *)
(* lower-casing and the regular expressions of the interpreter are         *)
(* computed character by character, as Python computes them.               *)
(***************************************************************************)
EXTENDS Integers, Sequences, FiniteSets, TLC

VARIABLES pc, text, params, explanation, patient_pool, filtered, refiltered,
          response, stats

vars == <<pc, text, params, explanation, patient_pool, filtered, refiltered,
          response, stats>>

(***************************************************************************)
(* Bounds of the model.                                                    *)
(***************************************************************************)
\* a query of the interpreter's specification is at most MaxPhrases phrases
MaxPhrases == 3
\* the generated pool holds PoolMin..PoolMax persons (the code draws 20..50)
PoolMin == 1
PoolMax == 2
\* a random age is drawn among the AgeSpread lowest and highest of its range
AgeSpread == 1
\* a pool handed directly to filter_patients holds at most MaxGiven persons
MaxGiven == 3

(***************************************************************************)
(* Characters and Python's str / re primitives.                            *)
(***************************************************************************)
LowerLetters == <<"a","b","c","d","e","f","g","h","i","j","k","l","m",
                  "n","o","p","q","r","s","t","u","v","w","x","y","z">>
UpperLetters == <<"A","B","C","D","E","F","G","H","I","J","K","L","M",
                  "N","O","P","Q","R","S","T","U","V","W","X","Y","Z">>
DigitChars == <<"0","1","2","3","4","5","6","7","8","9">>

Range(s) == {s[i] : i \in DOMAIN s}

Digits == Range(DigitChars)
Uppers == Range(UpperLetters)

\* the characters \w matches, on ASCII text
WordChars == Range(LowerLetters) \cup Uppers \cup Digits \cup {"_"}

\* \d of the re module
IsDigit(c) == c \in Digits

\* \w of the re module
IsWordChar(c) == c \in WordChars

\* str.lower() on one character
lower_char(c) ==
    IF c \in Uppers
    THEN LowerLetters[CHOOSE i \in DOMAIN UpperLetters : UpperLetters[i] = c]
    ELSE c

\* str.lower()
lower(t) == [i \in 1..Len(t) |-> lower_char(t[i])]

\* `pat in t` on strings, for a pattern of at least one character
Contains(t, pat) ==
    \E i \in 1..(Len(t) - Len(pat) + 1) :
        t[i] = pat[1] /\ SubSeq(t, i, i + Len(pat) - 1) = pat

\* \b at the gap before position k (k = Len(t)+1 is the end of the text)
word_boundary(t, k) ==
    LET before == k - 1 \in 1..Len(t) /\ IsWordChar(t[k - 1])
        after  == k \in 1..Len(t) /\ IsWordChar(t[k])
    IN  before # after

\* re.search(r"\bw\b", t) for a literal word w
re_search_word(w, t) ==
    \E i \in 1..(Len(t) - Len(w) + 1) :
        /\ t[i] = w[1]
        /\ SubSeq(t, i, i + Len(w) - 1) = w
        /\ word_boundary(t, i)
        /\ word_boundary(t, i + Len(w))

\* one attempt of \b\d{1,3}\b at position pos taking n digits
digits_match(t, pos, n) ==
    /\ pos + n - 1 <= Len(t)
    /\ \A j \in pos..(pos + n - 1) : IsDigit(t[j])
    /\ word_boundary(t, pos)
    /\ word_boundary(t, pos + n)

\* the length \b\d{1,3}\b matches at pos (greedy, backtracking), 0 if none
match_len(t, pos) ==
    IF digits_match(t, pos, 3) THEN 3
    ELSE IF digits_match(t, pos, 2) THEN 2
    ELSE IF digits_match(t, pos, 1) THEN 1
    ELSE 0

RECURSIVE findall_from(_, _)
findall_from(t, pos) ==
    IF pos > Len(t) THEN <<>>
    ELSE LET n == match_len(t, pos)
         IN  IF n = 0 THEN findall_from(t, pos + 1)
             ELSE <<SubSeq(t, pos, pos + n - 1)>> \o findall_from(t, pos + n)

\* the number of digits, at most three, that start at pos
RECURSIVE digits_at(_, _, _)
digits_at(t, pos, n) ==
    IF n < 3 /\ pos + n <= Len(t) /\ IsDigit(t[pos + n])
    THEN digits_at(t, pos, n + 1) ELSE n

RECURSIVE findall_unbounded_from(_, _)
findall_unbounded_from(t, pos) ==
    IF pos > Len(t) THEN <<>>
    ELSE LET n == digits_at(t, pos, 0)
         IN  IF n = 0 THEN findall_unbounded_from(t, pos + 1)
             ELSE <<SubSeq(t, pos, pos + n - 1)>>
                  \o findall_unbounded_from(t, pos + n)

\* re.findall(r'\d{1,3}', t): the pattern without its word boundaries
re_findall_no_boundary(t) == findall_unbounded_from(t, 1)

\* re.findall(r'\b\d{1,3}\b', t)
re_findall_age(t) == findall_from(t, 1)

digit_value(c) == (CHOOSE i \in DOMAIN DigitChars : DigitChars[i] = c) - 1

\* int(s) for a string of decimal digits
RECURSIVE int(_)
int(s) ==
    IF s = <<>> THEN 0
    ELSE int(SubSeq(s, 1, Len(s) - 1)) * 10 + digit_value(s[Len(s)])

\* sep.join(parts) on strings
RECURSIVE join(_, _)
join(sep, parts) ==
    IF parts = <<>> THEN ""
    ELSE IF Len(parts) = 1 THEN parts[1]
    ELSE parts[1] \o sep \o join(sep, Tail(parts))

(***************************************************************************)
(* NLPProcessor                                                            *)
(***************************************************************************)
None == "None"

\* an empty dict
EmptyDict == [k \in {} |-> 0]

\* the surface forms of each condition key, in dict order
conditions ==
    << [key |-> "diabetes", patterns |->
          << <<"d","i","a","b","e","t","e","s">>,
             <<"d","i","a","b","e","t","i","c">>,
             <<"d","m">>,
             <<"t","y","p","e"," ","1">>,
             <<"t","y","p","e"," ","2">> >>],
       [key |-> "hypertension", patterns |->
          << <<"h","y","p","e","r","t","e","n","s","i","o","n">>,
             <<"h","i","g","h"," ","b","l","o","o","d"," ","p","r","e","s","s","u","r","e">>,
             <<"h","b","p">>,
             <<"h","y","p","e","r","t","e","n","s","i","v","e">> >>],
       [key |-> "asthma", patterns |->
          << <<"a","s","t","h","m","a">>,
             <<"a","s","t","h","m","a","t","i","c">>,
             <<"r","e","s","p","i","r","a","t","o","r","y">> >>],
       [key |-> "heart disease", patterns |->
          << <<"h","e","a","r","t"," ","d","i","s","e","a","s","e">>,
             <<"c","a","r","d","i","a","c">>,
             <<"c","o","r","o","n","a","r","y">>,
             <<"h","e","a","r","t"," ","c","o","n","d","i","t","i","o","n">>,
             <<"c","a","r","d","i","o","v","a","s","c","u","l","a","r">> >>],
       [key |-> "cancer", patterns |->
          << <<"c","a","n","c","e","r">>,
             <<"o","n","c","o","l","o","g","y">>,
             <<"t","u","m","o","r">>,
             <<"m","a","l","i","g","n","a","n","t">>,
             <<"c","a","r","c","i","n","o","m","a">> >>],
       [key |-> "copd", patterns |->
          << <<"c","o","p","d">>,
             <<"c","h","r","o","n","i","c"," ","o","b","s","t","r","u","c","t","i","v","e">>,
             <<"e","m","p","h","y","s","e","m","a">> >>],
       [key |-> "stroke", patterns |->
          << <<"s","t","r","o","k","e">>,
             <<"c","e","r","e","b","r","o","v","a","s","c","u","l","a","r">>,
             <<"c","v","a">> >>] >>

\* the keyword table the class declares; extract_age_filter does not read it
age_patterns ==
    [over    |-> << <<"o","v","e","r">>, <<"a","b","o","v","e">>,
                    <<"o","l","d","e","r"," ","t","h","a","n">>,
                    <<"g","r","e","a","t","e","r"," ","t","h","a","n">> >>,
     under   |-> << <<"u","n","d","e","r">>, <<"b","e","l","o","w">>,
                    <<"y","o","u","n","g","e","r"," ","t","h","a","n">>,
                    <<"l","e","s","s"," ","t","h","a","n">> >>,
     between |-> << <<"b","e","t","w","e","e","n">>, <<"f","r","o","m">>,
                    <<"a","g","e"," ","r","a","n","g","e">> >> ]

\* in dict order: female first, then male; each pattern is \bword\b
gender_patterns ==
    << [gender |-> "female", patterns |->
          << <<"f","e","m","a","l","e">>, <<"w","o","m","e","n">>,
             <<"w","o","m","a","n">>, <<"f","e","m","i","n","i","n","e">> >>],
       [gender |-> "male", patterns |->
          << <<"m","a","l","e">>, <<"m","e","n">>,
             <<"m","a","n">>, <<"m","a","s","c","u","l","i","n","e">> >>] >>

has_over(text_lower) ==
    \/ Contains(text_lower, <<"o","v","e","r">>)
    \/ Contains(text_lower, <<"a","b","o","v","e">>)
    \/ Contains(text_lower, <<"o","l","d","e","r"," ","t","h","a","n">>)

has_under(text_lower) ==
    \/ Contains(text_lower, <<"u","n","d","e","r">>)
    \/ Contains(text_lower, <<"b","e","l","o","w">>)
    \/ Contains(text_lower, <<"y","o","u","n","g","e","r"," ","t","h","a","n">>)

has_between(text_lower) == Contains(text_lower, <<"b","e","t","w","e","e","n">>)

\* extract_age_filter with a bound of its own choosing when the keyword has
\* no number
extract_age_filter_default_bound(t) ==
    LET text_lower  == lower(t)
        age_numbers == re_findall_age(t)
    IN  IF has_over(text_lower)
        THEN "min_age" :> (IF age_numbers # <<>> THEN int(age_numbers[1]) ELSE 65)
        ELSE IF has_under(text_lower)
        THEN "max_age" :> (IF age_numbers # <<>> THEN int(age_numbers[1]) ELSE 18)
        ELSE IF has_between(text_lower) /\ Len(age_numbers) >= 2
        THEN ("min_age" :> int(age_numbers[1])) @@ ("max_age" :> int(age_numbers[2]))
        ELSE EmptyDict

\* extract_age_filter: the branch of the first keyword class found, with the
\* numbers of the text
extract_age_filter(t) ==
    LET text_lower  == lower(t)
        age_numbers == re_findall_age(t)
    IN  IF has_over(text_lower)
        THEN IF age_numbers # <<>>
             THEN "min_age" :> int(age_numbers[1])
             ELSE EmptyDict
        ELSE IF has_under(text_lower)
        THEN IF age_numbers # <<>>
             THEN "max_age" :> int(age_numbers[1])
             ELSE EmptyDict
        ELSE IF has_between(text_lower) /\ Len(age_numbers) >= 2
        THEN ("min_age" :> int(age_numbers[1])) @@ ("max_age" :> int(age_numbers[2]))
        ELSE EmptyDict

\* extract_gender with a plain substring test in place of the \bword\b search
extract_gender_substring(t) ==
    LET text_lower == lower(t)
        hit(g) == \E j \in DOMAIN gender_patterns[g].patterns :
                      Contains(text_lower, gender_patterns[g].patterns[j])
    IN  IF \E g \in DOMAIN gender_patterns : hit(g)
        THEN gender_patterns[CHOOSE g \in DOMAIN gender_patterns :
                 hit(g) /\ \A h \in 1..(g - 1) : ~hit(h)].gender
        ELSE None

\* the first gender of gender_patterns one of whose patterns is found
extract_gender(t) ==
    LET text_lower == lower(t)
        hit(g) == \E j \in DOMAIN gender_patterns[g].patterns :
                      re_search_word(gender_patterns[g].patterns[j], text_lower)
    IN  IF \E g \in DOMAIN gender_patterns : hit(g)
        THEN gender_patterns[CHOOSE g \in DOMAIN gender_patterns :
                 hit(g) /\ \A h \in 1..(g - 1) : ~hit(h)].gender
        ELSE None

\* detection in which the first two letters of a variant stand for it
RECURSIVE conditions_from_abbreviated(_, _)
conditions_from_abbreviated(text_lower, i) ==
    IF i > Len(conditions) THEN <<>>
    ELSE (IF \E j \in DOMAIN conditions[i].patterns :
                 Contains(text_lower, SubSeq(conditions[i].patterns[j], 1, 2))
          THEN <<conditions[i].key>> ELSE <<>>)
         \o conditions_from_abbreviated(text_lower, i + 1)

\* the keys of conditions, in dict order, one of whose variants is a
\* substring of the lowercased text
RECURSIVE conditions_from(_, _)
conditions_from(text_lower, i) ==
    IF i > Len(conditions) THEN <<>>
    ELSE (IF \E j \in DOMAIN conditions[i].patterns :
                 Contains(text_lower, conditions[i].patterns[j])
          THEN <<conditions[i].key>> ELSE <<>>)
         \o conditions_from(text_lower, i + 1)

extract_conditions(t) == conditions_from(lower(t), 1)

DefaultLimit == 10

GenericExplanation == "General patient search"

\* the parts with the gender after the age, and no phrasing of its own for
\* an age filter with both bounds
explanation_parts_age_before_gender(conds, gender, age_filter) ==
    (IF conds # <<>>
     THEN <<"Searching for patients with: " \o join(", ", conds)>> ELSE <<>>)
    \o (IF "min_age" \in DOMAIN age_filter
        THEN <<"Age over " \o ToString(age_filter["min_age"])>>
        ELSE IF "max_age" \in DOMAIN age_filter
        THEN <<"Age under " \o ToString(age_filter["max_age"])>>
        ELSE <<>>)
    \o (IF gender # None THEN <<"Gender: " \o gender>> ELSE <<>>)

\* the explanation parts process_query collects, in the order it appends them
explanation_parts(conds, gender, age_filter) ==
    (IF conds # <<>>
     THEN <<"Searching for patients with: " \o join(", ", conds)>> ELSE <<>>)
    \o (IF gender # None THEN <<"Gender: " \o gender>> ELSE <<>>)
    \o (IF age_filter # EmptyDict
        THEN IF "min_age" \in DOMAIN age_filter /\ "max_age" \in DOMAIN age_filter
             THEN <<"Age between " \o ToString(age_filter["min_age"])
                    \o " and " \o ToString(age_filter["max_age"])>>
             ELSE IF "min_age" \in DOMAIN age_filter
             THEN <<"Age over " \o ToString(age_filter["min_age"])>>
             ELSE IF "max_age" \in DOMAIN age_filter
             THEN <<"Age under " \o ToString(age_filter["max_age"])>>
             ELSE <<>>
        ELSE <<>>)

\* process_query: the pair (params, explanation)
process_query(query_text) ==
    LET conds      == extract_conditions(query_text)
        age_filter == extract_age_filter(query_text)
        gender     == extract_gender(query_text)
        parts      == explanation_parts(conds, gender, age_filter)
    IN  [params |-> [conditions |-> conds,
                     age_filter |-> age_filter,
                     gender     |-> gender,
                     limit      |-> DefaultLimit,
                     query_type |-> "patient_search"],
         explanation |-> IF parts # <<>> THEN join("; ", parts)
                         ELSE GenericExplanation]

\* the examples of get_example_queries: the input and the documented
\* expected_params of each
get_example_queries ==
    << 
       \* Show me all diabetic patients over 50
       [input |-> <<"S","h","o","w"," ","m","e"," ","a","l","l"," ","d","i","a","b","e","t","i","c"," ","p","a","t","i","e","n","t","s"," ","o","v","e","r"," ","5","0">>,
        expected_params |->
            [conditions |-> <<"diabetes">>, age_filter |-> ("min_age" :> 50),
             gender |-> None, limit |-> 10, query_type |-> "patient_search"]],
       \* Find female patients with hypertension
       [input |-> <<"F","i","n","d"," ","f","e","m","a","l","e"," ","p","a","t","i","e","n","t","s"," ","w","i","t","h"," ","h","y","p","e","r","t","e","n","s","i","o","n">>,
        expected_params |->
            [conditions |-> <<"hypertension">>, age_filter |-> EmptyDict,
             gender |-> "female", limit |-> 10, query_type |-> "patient_search"]],
       \* List male cancer patients between 40 and 60
       [input |-> <<"L","i","s","t"," ","m","a","l","e"," ","c","a","n","c","e","r"," ","p","a","t","i","e","n","t","s"," ","b","e","t","w","e","e","n"," ","4","0"," ","a","n","d"," ","6","0">>,
        expected_params |->
            [conditions |-> <<"cancer">>, age_filter |-> ("min_age" :> 40) @@ ("max_age" :> 60),
             gender |-> "male", limit |-> 10, query_type |-> "patient_search"]],
       \* Show patients with asthma under 30
       [input |-> <<"S","h","o","w"," ","p","a","t","i","e","n","t","s"," ","w","i","t","h"," ","a","s","t","h","m","a"," ","u","n","d","e","r"," ","3","0">>,
        expected_params |->
            [conditions |-> <<"asthma">>, age_filter |-> ("max_age" :> 30),
             gender |-> None, limit |-> 10, query_type |-> "patient_search"]],
       \* Find heart disease patients
       [input |-> <<"F","i","n","d"," ","h","e","a","r","t"," ","d","i","s","e","a","s","e"," ","p","a","t","i","e","n","t","s">>,
        expected_params |->
            [conditions |-> <<"heart disease">>, age_filter |-> EmptyDict,
             gender |-> None, limit |-> 10, query_type |-> "patient_search"]] >>

(***************************************************************************)
(* FHIRSimulator                                                           *)
(***************************************************************************)
\* the catalog, in dict order
condition_codes ==
    << [key |-> "diabetes", code |-> "E11.9",
        display |-> "Type 2 diabetes mellitus without complications",
        system |-> "http://hl7.org/fhir/sid/icd-10-cm"],
       [key |-> "hypertension", code |-> "I10",
        display |-> "Essential hypertension",
        system |-> "http://hl7.org/fhir/sid/icd-10-cm"],
       [key |-> "asthma", code |-> "J45.9",
        display |-> "Asthma, unspecified",
        system |-> "http://hl7.org/fhir/sid/icd-10-cm"],
       [key |-> "heart disease", code |-> "I25.9",
        display |-> "Chronic ischemic heart disease, unspecified",
        system |-> "http://hl7.org/fhir/sid/icd-10-cm"],
       [key |-> "cancer", code |-> "C80.1",
        display |-> "Malignant neoplasm, unspecified",
        system |-> "http://hl7.org/fhir/sid/icd-10-cm"] >>

catalog_keys == {condition_codes[i].key : i \in DOMAIN condition_codes}

\* the coding used for a key outside the catalog
fallback_code ==
    [code |-> "R06.9", display |-> "Unspecified abnormalities of breathing",
     system |-> "http://hl7.org/fhir/sid/icd-10-cm"]

DefaultMinAge == 18
DefaultMaxAge == 85

\* generate_patient_id: the 8 hex digits of a fresh uuid, here the serial
\* number n of the person within the request
generate_patient_id(n) == "patient-" \o ToString(n)

\* the bounds generate_patient hands to random.randint
age_low(age_range) ==
    IF age_range # EmptyDict /\ "min_age" \in DOMAIN age_range
    THEN age_range["min_age"] ELSE DefaultMinAge

age_high(age_range) ==
    IF age_range # EmptyDict /\ "max_age" \in DOMAIN age_range
    THEN age_range["max_age"] ELSE DefaultMaxAge

\* random.randint(lo, hi) raises ValueError on an empty range
randint_raises(lo, hi) == lo > hi

\* the outcomes of random.randint(lo, hi) the model explores
randint(lo, hi) ==
    {a \in lo..hi : a < lo + AgeSpread \/ a > hi - AgeSpread}

\* generate_patient raises when its age range is empty
generate_patient_raises(age_range) ==
    randint_raises(age_low(age_range), age_high(age_range))

gender_choices(gender) == IF gender # None THEN {gender} ELSE {"male", "female"}

\* the Patient resource: the fields the filter, the bundle and the
\* statistics read
patient_resource(n, gender, age, conds) ==
    [resourceType |-> "Patient",
     id           |-> generate_patient_id(n),
     gender       |-> gender,
     computed     |-> [age |-> age, conditions |-> conds]]

\* every outcome of generate_patient for the n-th person
generate_patient(n, gender, age_range, conds) ==
    {patient_resource(n, g, a, conds) :
        g \in gender_choices(gender),
        a \in randint(age_low(age_range), age_high(age_range))}

Min(a, b) == IF a <= b THEN a ELSE b
Max(a, b) == IF a >= b THEN a ELSE b

\* random.sample(population, k): k positions without repetition, k <= 2
sample(population, k) ==
    IF k = 0 THEN {<<>>}
    ELSE IF k = 1 THEN {<<population[i]>> : i \in DOMAIN population}
    ELSE {<<population[q[1]], population[q[2]]>> :
              q \in {r \in (DOMAIN population) \X (DOMAIN population) : r[1] # r[2]}}

\* the assignment with the second check made whatever the first one gave
assign_conditions_non_exclusive(conditions_requested, first, second) ==
    IF conditions_requested # <<>>
    THEN IF second
         THEN sample(conditions_requested, Min(2, Len(conditions_requested)))
         ELSE IF first
         THEN {<<conditions_requested[i]>> : i \in DOMAIN conditions_requested}
         ELSE {<<>>}
    ELSE IF first
         THEN {<<k>> : k \in catalog_keys}
         ELSE {<<>>}

\* the condition list one pool member gets; first and second are the
\* outcomes of the two random.random() < threshold checks
assign_conditions(conditions_requested, first, second) ==
    IF conditions_requested # <<>>
    THEN IF first
         THEN {<<conditions_requested[i]>> : i \in DOMAIN conditions_requested}
         ELSE IF second
         THEN sample(conditions_requested, Min(2, Len(conditions_requested)))
         ELSE {<<>>}
    ELSE IF first
         THEN {<<k>> : k \in catalog_keys}
         ELSE {<<>>}

patient_conditions(conditions_requested) ==
    UNION {assign_conditions(conditions_requested, first, second) :
               first \in BOOLEAN, second \in BOOLEAN}

\* the persons one iteration of the generation loop can append, before
\* generate_patient_id names them
pool_member(prm) ==
    UNION {generate_patient(0, prm.gender, prm.age_filter, c) :
               c \in patient_conditions(prm.conditions)}

\* random.randint(20, 50): the least number of persons of a generated pool
LeastPool == 20

\* the pools of n persons the generation loop can produce; the i-th person
\* carries the i-th fresh id.  Up to PoolMax persons every combination of
\* outcomes is explored; in a longer pool the outcomes of the first PoolMin
\* persons repeat
pools_of_size(n, prm) ==
    LET members == pool_member(prm)
        period  == IF n <= PoolMax THEN n ELSE PoolMin
    IN  {[i \in 1..n |-> [f[((i - 1) % period) + 1]
                              EXCEPT !.id = generate_patient_id(i)]] :
            f \in [1..period -> members]}

\* generate_condition with the first catalog entry for a key outside the
\* catalog
generate_condition_first_entry(n, patient_id, condition_name) ==
    LET e == IF condition_name \notin catalog_keys
             THEN condition_codes[1]
             ELSE condition_codes[CHOOSE i \in DOMAIN condition_codes :
                                      condition_codes[i].key = condition_name]
        condition_code == [code |-> e.code, display |-> e.display,
                           system |-> e.system]
    IN  [resourceType |-> "Condition",
         id           |-> "condition-" \o ToString(n),
         code         |-> [coding |-> <<condition_code>>,
                           text   |-> condition_code.display],
         subject      |-> [reference |-> "Patient/" \o patient_id,
                           display   |-> "Patient " \o patient_id]]

\* generate_condition for the n-th condition record of the request
generate_condition(n, patient_id, condition_name) ==
    LET condition_code ==
            IF condition_name \notin catalog_keys
            THEN fallback_code
            ELSE LET e == condition_codes[CHOOSE i \in DOMAIN condition_codes :
                                              condition_codes[i].key = condition_name]
                 IN  [code |-> e.code, display |-> e.display, system |-> e.system]
    IN  [resourceType |-> "Condition",
         id           |-> "condition-" \o ToString(n),
         code         |-> [coding |-> <<condition_code>>,
                           text   |-> condition_code.display],
         subject      |-> [reference |-> "Patient/" \o patient_id,
                           display   |-> "Patient " \o patient_id]]

\* a person satisfies every predicate the parameters set
passes(p, prm) ==
    /\ prm.gender # None => p.gender = prm.gender
    /\ "min_age" \in DOMAIN prm.age_filter
           => p.computed.age >= prm.age_filter["min_age"]
    /\ "max_age" \in DOMAIN prm.age_filter
           => p.computed.age <= prm.age_filter["max_age"]
    /\ prm.conditions # <<>>
           => \E c \in Range(prm.conditions) : c \in Range(p.computed.conditions)

drop_at(s, i) == SubSeq(s, 1, i - 1) \o SubSeq(s, i + 1, Len(s))

\* `for p in s: if not keep(p): s.remove(p)`: the element that follows a
\* removed one is skipped
RECURSIVE remove_while_iterating(_, _, _)
remove_while_iterating(s, keep, i) ==
    IF i > Len(s) THEN s
    ELSE IF keep[i] THEN remove_while_iterating(s, keep, i + 1)
    ELSE remove_while_iterating(drop_at(s, i), drop_at(keep, i), i + 1)

\* filter_patients removing the failing persons from the list it iterates
filter_patients_remove_while_iterating(patients, prm) ==
    remove_while_iterating(patients,
                           [i \in DOMAIN patients |-> passes(patients[i], prm)], 1)

\* filter_patients
filter_patients(patients, prm) ==
    LET by_gender(p) == p.gender = prm.gender
        f1 == IF prm.gender # None THEN SelectSeq(patients, by_gender)
              ELSE patients
        age_filter == prm.age_filter
        by_min(p) == p.computed.age >= age_filter["min_age"]
        f2 == IF age_filter # EmptyDict /\ "min_age" \in DOMAIN age_filter
              THEN SelectSeq(f1, by_min) ELSE f1
        by_max(p) == p.computed.age <= age_filter["max_age"]
        f3 == IF age_filter # EmptyDict /\ "max_age" \in DOMAIN age_filter
              THEN SelectSeq(f2, by_max) ELSE f2
        by_cond(p) == \E i \in DOMAIN prm.conditions :
                          prm.conditions[i] \in Range(p.computed.conditions)
    IN  IF prm.conditions # <<>> THEN SelectSeq(f3, by_cond) ELSE f3

\* a slice that keeps the whole list
slice_to_whole(s, limit) == s

\* s[:limit]
slice_to(s, limit) ==
    IF limit >= 0 THEN SubSeq(s, 1, Min(limit, Len(s)))
    ELSE SubSeq(s, 1, Max(Len(s) + limit, 0))

\* the (patient id, condition name) pairs of the nested loop that builds
\* all_conditions
RECURSIVE condition_pairs(_)
condition_pairs(matching) ==
    IF matching = <<>> THEN <<>>
    ELSE [i \in DOMAIN matching[1].computed.conditions |->
             [patient_id |-> matching[1].id,
              name       |-> matching[1].computed.conditions[i]]]
         \o condition_pairs(Tail(matching))

\* the pairs of a loop that takes only the first condition of each person
RECURSIVE first_condition_pairs(_)
first_condition_pairs(matching) ==
    IF matching = <<>> THEN <<>>
    ELSE (IF matching[1].computed.conditions = <<>> THEN <<>>
          ELSE <<[patient_id |-> matching[1].id,
                  name       |-> matching[1].computed.conditions[1]]>>)
         \o first_condition_pairs(Tail(matching))

\* all_conditions with one condition record per person
all_conditions_first_key_only(matching) ==
    LET pairs == first_condition_pairs(matching)
    IN  [n \in DOMAIN pairs |->
            generate_condition(n, pairs[n].patient_id, pairs[n].name)]

\* the condition records generate_response builds for the matching persons
all_conditions(matching) ==
    LET pairs == condition_pairs(matching)
    IN  [n \in DOMAIN pairs |->
            generate_condition(n, pairs[n].patient_id, pairs[n].name)]

patient_entries(matching) ==
    [i \in DOMAIN matching |->
        [fullUrl  |-> "http://example.org/fhir/Patient/" \o matching[i].id,
         resource |-> matching[i],
         search   |-> [mode |-> "match"]]]

condition_entries(conds) ==
    [i \in DOMAIN conds |->
        [fullUrl  |-> "http://example.org/fhir/Condition/" \o conds[i].id,
         resource |-> conds[i],
         search   |-> [mode |-> "include"]]]

\* the entry list with each person followed by its own conditions
RECURSIVE bundle_entries_interleaved(_, _)
bundle_entries_interleaved(matching, conds) ==
    IF matching = <<>> THEN <<>>
    ELSE LET k == Min(Len(matching[1].computed.conditions), Len(conds))
         IN  patient_entries(<<matching[1]>>)
             \o condition_entries(SubSeq(conds, 1, k))
             \o bundle_entries_interleaved(Tail(matching),
                                           SubSeq(conds, k + 1, Len(conds)))

\* the entry list: the patients, then the conditions
bundle_entries(matching, conds) ==
    patient_entries(matching) \o condition_entries(conds)

\* build_bundle with the condition records generated before the limit is
\* applied, for every person that passed the filter
build_bundle_conditions_before_limit(pool, prm) ==
    LET passed == filter_patients(pool, prm)
        matching_patients == slice_to(passed, prm.limit)
    IN  [resourceType |-> "Bundle",
         type         |-> "searchset",
         total        |-> Len(matching_patients),
         entry        |-> bundle_entries(matching_patients, all_conditions(passed))]

\* build_bundle with the limit applied to the pool before the filter
build_bundle_limit_first(pool, prm) ==
    LET matching_patients == filter_patients(slice_to(pool, prm.limit), prm)
    IN  [resourceType |-> "Bundle",
         type         |-> "searchset",
         total        |-> Len(matching_patients),
         entry        |-> bundle_entries(matching_patients,
                                         all_conditions(matching_patients))]

\* build_bundle with the total counting every entry of the bundle
build_bundle_total_of_entries(pool, prm) ==
    LET matching_patients == slice_to(filter_patients(pool, prm), prm.limit)
        entry == bundle_entries(matching_patients, all_conditions(matching_patients))
    IN  [resourceType |-> "Bundle",
         type         |-> "searchset",
         total        |-> Len(entry),
         entry        |-> entry]

\* the bundle generate_response builds from its pool: filter, limit,
\* conditions of the matching persons, bundle
build_bundle(pool, prm) ==
    LET matching_patients == slice_to(filter_patients(pool, prm), prm.limit)
    IN  [resourceType |-> "Bundle",
         type         |-> "searchset",
         total        |-> Len(matching_patients),
         entry        |-> bundle_entries(matching_patients,
                                         all_conditions(matching_patients))]

RECURSIVE sum(_)
sum(s) == IF s = <<>> THEN 0 ELSE s[1] + sum(Tail(s))

\* a distribution that records each display text once
condition_dist_without_accumulation(conds) ==
    [nm \in {conds[i].code.text : i \in DOMAIN conds} |-> 1]

\* condition_dist after the loop over the Condition resources: for each
\* display text the number of resources that carry it
condition_dist(conds) ==
    [nm \in {conds[i].code.text : i \in DOMAIN conds} |->
        Cardinality({i \in DOMAIN conds : conds[i].code.text = nm})]

\* get_summary_statistics
get_summary_statistics(fhir_response) ==
    LET is_patient(e)   == e.resource.resourceType = "Patient"
        is_condition(e) == e.resource.resourceType = "Condition"
        patients == LET es == SelectSeq(fhir_response.entry, is_patient)
                    IN  [i \in DOMAIN es |-> es[i].resource]
        conds    == LET es == SelectSeq(fhir_response.entry, is_condition)
                    IN  [i \in DOMAIN es |-> es[i].resource]
        ages == [i \in DOMAIN patients |-> patients[i].computed.age]
        g1(a) == 18 <= a /\ a <= 30
        g2(a) == 31 <= a /\ a <= 50
        g3(a) == 51 <= a /\ a <= 70
        g4(a) == a > 70
        male(p)   == p.gender = "male"
        female(p) == p.gender = "female"
    IN  [total_patients   |-> Len(patients),
         total_conditions |-> Len(conds),
         age_distribution |-> [b18_30 |-> Len(SelectSeq(ages, g1)),
                               b31_50 |-> Len(SelectSeq(ages, g2)),
                               b51_70 |-> Len(SelectSeq(ages, g3)),
                               b71    |-> Len(SelectSeq(ages, g4))],
         gender_distribution |-> [male   |-> Len(SelectSeq(patients, male)),
                                  female |-> Len(SelectSeq(patients, female))],
         condition_distribution |-> condition_dist(conds),
         \* sum(ages) / len(ages) as a fraction; 0 when there is nobody
         average_age |-> IF ages # <<>>
                         THEN [num |-> sum(ages), den |-> Len(ages)]
                         ELSE [num |-> 0, den |-> 1]]

(***************************************************************************)
(* Inputs                                                                  *)
(***************************************************************************)
\* the phrases the interpreter's queries are made of
Phrases ==
    << <<"o","v","e","r">>,
       <<"u","n","d","e","r">>,
       <<"b","e","t","w","e","e","n">>,
       <<"f","r","o","m">>,
       <<"A","b","o","v","e">>,
       <<"r","e","c","o","v","e","r">>,
       <<"5","0">>,
       <<"1","2","3","4">>,
       <<"6","5","y","o">>,
       <<"4","0"," ","a","n","d"," ","6","0">>,
       <<"w","o","m","e","n">>,
       <<"m","e","n","'","s">>,
       <<"f","e","m","a","l","e">>,
       <<"t","r","e","a","t","m","e","n","t">>,
       <<"d","i","a","b","e","t","i","c">>,
       <<"u","n","d","e","r"," ","3","0">> >>

PipelineQueries ==
    { \* 
      <<>>,
      \* Show me all diabetic patients over 50
      <<"S","h","o","w"," ","m","e"," ","a","l","l"," ","d","i","a","b","e","t","i","c"," ","p","a","t","i","e","n","t","s"," ","o","v","e","r"," ","5","0">>,
      \* Find female patients with hypertension
      <<"F","i","n","d"," ","f","e","m","a","l","e"," ","p","a","t","i","e","n","t","s"," ","w","i","t","h"," ","h","y","p","e","r","t","e","n","s","i","o","n">>,
      \* List male cancer patients between 40 and 60
      <<"L","i","s","t"," ","m","a","l","e"," ","c","a","n","c","e","r"," ","p","a","t","i","e","n","t","s"," ","b","e","t","w","e","e","n"," ","4","0"," ","a","n","d"," ","6","0">>,
      \* Show patients with asthma under 30
      <<"S","h","o","w"," ","p","a","t","i","e","n","t","s"," ","w","i","t","h"," ","a","s","t","h","m","a"," ","u","n","d","e","r"," ","3","0">>,
      \* Find heart disease patients
      <<"F","i","n","d"," ","h","e","a","r","t"," ","d","i","s","e","a","s","e"," ","p","a","t","i","e","n","t","s">>,
      \* patients over 90
      <<"p","a","t","i","e","n","t","s"," ","o","v","e","r"," ","9","0">>,
      \* patients under 10
      <<"p","a","t","i","e","n","t","s"," ","u","n","d","e","r"," ","1","0">>,
      \* patients between 60 and 40
      <<"p","a","t","i","e","n","t","s"," ","b","e","t","w","e","e","n"," ","6","0"," ","a","n","d"," ","4","0">>,
      \* women between 5 and 10
      <<"w","o","m","e","n"," ","b","e","t","w","e","e","n"," ","5"," ","a","n","d"," ","1","0">>,
      \* diabetic asthmatic women over 84
      <<"d","i","a","b","e","t","i","c"," ","a","s","t","h","m","a","t","i","c"," ","w","o","m","e","n"," ","o","v","e","r"," ","8","4">>,
      \* men with copd stroke cancer over 85
      <<"m","e","n"," ","w","i","t","h"," ","c","o","p","d"," ","s","t","r","o","k","e"," ","c","a","n","c","e","r"," ","o","v","e","r"," ","8","5">> }

RECURSIVE join_words(_)
join_words(ws) ==
    IF ws = <<>> THEN <<>>
    ELSE IF Len(ws) = 1 THEN ws[1]
    ELSE ws[1] \o <<" ">> \o join_words(Tail(ws))

\* the text made of the phrases numbered f[1], f[2], ... separated by one space
phrase_text(f) == join_words([i \in DOMAIN f |-> Phrases[f[i]]])

\* the params dict process_query starts from
EmptyParams ==
    [conditions |-> <<>>, age_filter |-> EmptyDict, gender |-> None,
     limit |-> DefaultLimit, query_type |-> "patient_search"]

\* the response generate_response starts from
EmptyBundle ==
    [resourceType |-> "Bundle", type |-> "searchset", total |-> 0, entry |-> <<>>]

\* persons and parameter sets handed directly to filter_patients
GivenGenders == {"male", "female"}
GivenAges == {30, 50}
GivenConditions == {<<>>, <<"diabetes">>, <<"cancer", "asthma">>}

\* the pool whose i-th person has the attributes f[i] and the i-th id
given_pool(f) ==
    [i \in DOMAIN f |-> patient_resource(i, f[i][1], f[i][2], f[i][3])]

given(c, a, g, l) ==
    [conditions |-> c, age_filter |-> a, gender |-> g, limit |-> l,
     query_type |-> "patient_search"]

GivenParams ==
    { given(<<>>, EmptyDict, None, 1),
      given(<<>>, EmptyDict, None, 2),
      given(<<>>, EmptyDict, "female", 2),
      given(<<>>, "min_age" :> 50, None, 1),
      given(<<>>, "max_age" :> 30, None, 2),
      given(<<>>, ("min_age" :> 50) @@ ("max_age" :> 50), "male", 10),
      given(<<"asthma", "diabetes">>, EmptyDict, None, 1),
      given(<<"asthma", "diabetes">>, EmptyDict, None, 2),
      given(<<"diabetes">>, "min_age" :> 50, "female", 2),
      given(<<"asthma", "diabetes">>, "max_age" :> 30, "female", 1),
      given(<<"copd">>, ("min_age" :> 30) @@ ("max_age" :> 50), None, 10) }

(***************************************************************************)
(* Operations                                                              *)
(***************************************************************************)
\* NLPProcessor.process_query on the query text
ProcessQuery ==
    /\ pc = "idle"
    /\ LET r == process_query(text)
       IN  /\ params' = r.params
           /\ explanation' = r.explanation
    /\ pc' = "parsed"
    /\ UNCHANGED <<text, patient_pool, filtered, refiltered, response, stats>>

\* FHIRSimulator.generate_response on the extracted parameters
GenerateResponse ==
    /\ pc = "parsed"
    /\ ~generate_patient_raises(params.age_filter)
    /\ \E total_patients \in (PoolMin..PoolMax) \cup {LeastPool} :
         \E pool \in pools_of_size(total_patients, params) :
            /\ patient_pool' = pool
            /\ filtered' = filter_patients(pool, params)
            /\ response' = build_bundle(pool, params)
    /\ pc' = "done"
    /\ UNCHANGED <<text, params, explanation, refiltered, stats>>

\* generate_response when random.randint raises in the first generate_patient
GenerateResponseRaises ==
    /\ pc = "parsed"
    /\ generate_patient_raises(params.age_filter)
    /\ pc' = "raised"
    /\ UNCHANGED <<text, params, explanation, patient_pool, filtered, refiltered,
                   response, stats>>

\* FHIRSimulator.get_summary_statistics on the bundle
GetSummaryStatistics ==
    /\ pc = "done"
    /\ stats' = get_summary_statistics(response)
    /\ pc' = "stats"
    /\ UNCHANGED <<text, params, explanation, patient_pool, filtered, refiltered,
                   response>>

\* filter_patients on a given pool
FilterPatients ==
    /\ pc = "given"
    /\ filtered' = filter_patients(patient_pool, params)
    /\ pc' = "filtered"
    /\ UNCHANGED <<text, params, explanation, patient_pool, refiltered, response,
                   stats>>

\* filter_patients on its own result
FilterAgain ==
    /\ pc = "filtered"
    /\ refiltered' = filter_patients(filtered, params)
    /\ pc' = "refiltered"
    /\ UNCHANGED <<text, params, explanation, patient_pool, filtered, response,
                   stats>>

\* the part of generate_response after the pool is generated, on a given pool
AssembleBundle ==
    /\ pc = "given"
    /\ filtered' = filter_patients(patient_pool, params)
    /\ response' = build_bundle(patient_pool, params)
    /\ pc' = "done"
    /\ UNCHANGED <<text, params, explanation, patient_pool, refiltered, stats>>

(***************************************************************************)
(* Specifications                                                          *)
(***************************************************************************)
Blank ==
    /\ params = EmptyParams
    /\ explanation = ""
    /\ patient_pool = <<>>
    /\ filtered = <<>>
    /\ refiltered = <<>>
    /\ response = EmptyBundle
    /\ stats = None

\* a request: interpret the text, build the response, aggregate
Init ==
    /\ pc = "idle"
    /\ text \in PipelineQueries
    /\ Blank

Next == ProcessQuery \/ GenerateResponse \/ GenerateResponseRaises
        \/ GetSummaryStatistics

Spec == Init /\ [][Next]_vars

\* the interpreter alone, on every query of the phrase vocabulary
InitNLP ==
    /\ pc = "idle"
    /\ \E k \in 0..MaxPhrases :
         \E f \in [1..k -> DOMAIN Phrases] : text = phrase_text(f)
    /\ Blank

NextNLP == ProcessQuery

SpecNLP == InitNLP /\ [][NextNLP]_vars

\* the filter and the bundle assembly on given pools and parameter sets
InitPool ==
    /\ pc = "given"
    /\ text = <<>>
    /\ params \in GivenParams
    /\ explanation = ""
    /\ \E n \in 0..MaxGiven :
         \E f \in [1..n -> GivenGenders \X GivenAges \X GivenConditions] :
            patient_pool = given_pool(f)
    /\ filtered = <<>>
    /\ refiltered = <<>>
    /\ response = EmptyBundle
    /\ stats = None

NextPool == FilterPatients \/ FilterAgain \/ AssembleBundle \/ GetSummaryStatistics

SpecPool == InitPool /\ [][NextPool]_vars

(***************************************************************************)
(* Properties                                                              *)
(***************************************************************************)
Responded == pc \in {"done", "stats"}

is_patient_entry(e) == e.resource.resourceType = "Patient"
is_condition_entry(e) == e.resource.resourceType = "Condition"

\* the positions of the Patient and of the Condition entries of the bundle
PatientPositions ==
    {i \in DOMAIN response.entry : is_patient_entry(response.entry[i])}
ConditionPositions ==
    {i \in DOMAIN response.entry : is_condition_entry(response.entry[i])}

\* the ids of the persons of the bundle
BundlePatientIds == {response.entry[i].resource.id : i \in PatientPositions}

\* C1: process_query followed by generate_response on the extracted
\* parameters completes without raising, whatever age bounds were extracted.
C1_NeverRaises == pc # "raised"

has_any(text_lower, pats) == \E i \in DOMAIN pats : Contains(text_lower, pats[i])

\* the age filter under the precedence between, then over, then under, with
\* "from" and "age range" counted as between keywords
claimed_age_filter(t) ==
    LET text_lower  == lower(t)
        age_numbers == re_findall_age(t)
    IN  IF has_any(text_lower, age_patterns.between) /\ Len(age_numbers) >= 2
        THEN ("min_age" :> int(age_numbers[1])) @@ ("max_age" :> int(age_numbers[2]))
        ELSE IF has_any(text_lower, SubSeq(age_patterns.over, 1, 3))
        THEN IF age_numbers # <<>>
             THEN "min_age" :> int(age_numbers[1]) ELSE EmptyDict
        ELSE IF has_any(text_lower, SubSeq(age_patterns.under, 1, 3))
        THEN IF age_numbers # <<>>
             THEN "max_age" :> int(age_numbers[1]) ELSE EmptyDict
        ELSE EmptyDict

\* C2: extract_age_filter evaluates one keyword class in the precedence
\* between (or from / age range), then over, then under: with a between
\* keyword and two numbers both bounds are set even when over or under also
\* occurs.
C2_BetweenOverUnderPrecedence ==
    pc = "parsed" => params.age_filter = claimed_age_filter(text)

\* C3: in every bundle, every Condition entry's subject reference names the
\* id of a Patient entry of the same bundle.
C3_ReferentialClosure ==
    Responded =>
        \A i \in ConditionPositions :
            \E j \in PatientPositions :
                response.entry[i].resource.subject.reference
                    = "Patient/" \o response.entry[j].resource.id

\* a bundle with Condition entries, built from a pool one of whose persons
\* has conditions and is not in the bundle
C3_Witness ==
    /\ pc = "done"
    /\ ConditionPositions # {}
    /\ \E k \in DOMAIN patient_pool :
          /\ patient_pool[k].computed.conditions # <<>>
          /\ patient_pool[k].id \notin BundlePatientIds

\* the persons of the bundle, in entry order
BundlePatients ==
    LET es == SelectSeq(response.entry, is_patient_entry)
    IN  [i \in DOMAIN es |-> es[i].resource]

\* the first k persons of the pool, in pool order, that pass every predicate
RECURSIVE first_passing(_, _, _)
first_passing(pool, prm, k) ==
    IF pool = <<>> \/ k <= 0 THEN <<>>
    ELSE IF passes(pool[1], prm)
    THEN <<pool[1]>> \o first_passing(Tail(pool), prm, k - 1)
    ELSE first_passing(Tail(pool), prm, k)

\* C4: the Patient entries of the bundle are exactly the first `limit`
\* members of the pool, in pool order, that pass all set predicates; the
\* truncation is applied after all predicates.
C4_FirstLimitPassing ==
    Responded => BundlePatients = first_passing(patient_pool, params, params.limit)

\* more persons pass than the limit allows, and the first person of the pool
\* fails a predicate
C4_Witness ==
    /\ pc = "done"
    /\ Len(filtered) > params.limit
    /\ Len(BundlePatients) = params.limit
    /\ ~passes(patient_pool[1], params)

\* C5: the male and female counts of gender_distribution sum to the bundle's
\* declared total, which is the number of Patient entries (Condition entries
\* are not counted).
C5_GenderCountsSumToTotal ==
    pc = "stats" =>
        /\ stats.gender_distribution.male + stats.gender_distribution.female
               = response.total
        /\ response.total = Cardinality(PatientPositions)

\* statistics of a bundle with persons of both genders and Condition entries
C5_Witness ==
    /\ pc = "stats"
    /\ ConditionPositions # {}
    /\ stats.gender_distribution.male >= 1
    /\ stats.gender_distribution.female >= 1

\* C6: filter_patients is idempotent: filtering its own result with the same
\* parameters gives the same persons in the same order.
C6_FilterIdempotent == pc = "refiltered" => refiltered = filtered

\* a second filtering of a result that is not empty and from which the first
\* filtering removed somebody
C6_Witness ==
    /\ pc = "refiltered"
    /\ filtered # <<>>
    /\ Len(filtered) < Len(patient_pool)

\* the last position of the run of characters of class cls that starts at pos
run_end(t, pos, cls) ==
    CHOOSE j \in pos..Len(t) :
        /\ \A k \in pos..j : t[k] \in cls
        /\ j = Len(t) \/ t[j + 1] \notin cls

\* the maximal runs of characters of class cls, in order of occurrence
RECURSIVE runs_from(_, _, _)
runs_from(t, pos, cls) ==
    IF pos > Len(t) THEN <<>>
    ELSE IF t[pos] \notin cls THEN runs_from(t, pos + 1, cls)
    ELSE LET e == run_end(t, pos, cls)
         IN  <<SubSeq(t, pos, e)>> \o runs_from(t, e + 1, cls)

\* the words of a text: its maximal runs of letters, digits and underscores
words_of(t) == runs_from(t, 1, WordChars)

\* the integers written in a text: its maximal runs of digits
integers_of(t) == runs_from(t, 1, Digits)

is_short_number(w) == Len(w) <= 3 /\ \A i \in DOMAIN w : w[i] \in Digits

\* the standalone numbers of one to three digits: the words that are numbers
standalone_numbers(t) == SelectSeq(words_of(t), is_short_number)

FemaleWords ==
    { <<"f","e","m","a","l","e">>, <<"w","o","m","e","n">>,
      <<"w","o","m","a","n">>, <<"f","e","m","i","n","i","n","e">> }
MaleWords ==
    { <<"m","a","l","e">>, <<"m","e","n">>,
      <<"m","a","n">>, <<"m","a","s","c","u","l","i","n","e">> }

\* the gender a text names: female if one of its words is a female word,
\* otherwise male if one of its words is a male word
named_gender(t) ==
    LET ws == Range(words_of(lower(t)))
    IN  IF ws \cap FemaleWords # {} THEN "female"
        ELSE IF ws \cap MaleWords # {} THEN "male"
        ELSE None

\* C7: extract_gender returns female when a female word occurs as a whole
\* word, even if a male word also occurs; otherwise male when a male word
\* occurs as a whole word; otherwise unset. A text whose only gender word is
\* "women" is never male, and "men's" is male.
C7_GenderByWholeWord == pc = "parsed" => params.gender = named_gender(text)

\* a text with the word "women" and the word "men", classified female
C7_Witness ==
    /\ pc = "parsed"
    /\ <<"w","o","m","e","n">> \in Range(words_of(lower(text)))
    /\ <<"m","e","n">> \in Range(words_of(lower(text)))
    /\ params.gender = "female"

\* C8 as stated: a text that contains "over" and a number, and neither
\* "between" nor "from", gets as min_age the first integer written in it.
C8_OverSetsFirstInteger ==
    (/\ pc = "parsed"
     /\ Contains(text, <<"o","v","e","r">>)
     /\ integers_of(text) # <<>>
     /\ ~Contains(lower(text), <<"b","e","t","w","e","e","n">>)
     /\ ~Contains(lower(text), <<"f","r","o","m">>))
    => /\ "min_age" \in DOMAIN params.age_filter
       /\ params.age_filter["min_age"] = int(integers_of(text)[1])

\* C8, amended: a text that contains "over" (in any case) and a standalone
\* number of one to three digits, and neither "between" nor "from", gets as
\* min_age the first such standalone number, and no max_age.
C8_OverSetsFirstStandaloneNumber ==
    (/\ pc = "parsed"
     /\ Contains(lower(text), <<"o","v","e","r">>)
     /\ standalone_numbers(text) # <<>>
     /\ ~Contains(lower(text), <<"b","e","t","w","e","e","n">>)
     /\ ~Contains(lower(text), <<"f","r","o","m">>))
    => params.age_filter = ("min_age" :> int(standalone_numbers(text)[1]))

\* a text with "over" whose first integer is not a standalone number of one
\* to three digits and is followed by one, which becomes min_age
C8_Witness ==
    /\ pc = "parsed"
    /\ Contains(lower(text), <<"o","v","e","r">>)
    /\ ~Contains(lower(text), <<"b","e","t","w","e","e","n">>)
    /\ ~Contains(lower(text), <<"f","r","o","m">>)
    /\ standalone_numbers(text) # <<>>
    /\ integers_of(text)[1] # standalone_numbers(text)[1]
    /\ "min_age" \in DOMAIN params.age_filter
    /\ params.age_filter["min_age"] = int(standalone_numbers(text)[1])

\* the subject reference of a person
reference_of(p) == "Patient/" \o p.id

\* the Condition entries of the bundle that reference person p
ConditionsOf(p) ==
    {i \in ConditionPositions :
        response.entry[i].resource.subject.reference = reference_of(p)}

\* C9 as stated: each person's entry is immediately followed by that person's
\* own Condition entries, before the next person's entry.
C9_PersonThenItsConditions ==
    Responded =>
        \A j \in PatientPositions :
            \A k \in 1..Len(response.entry[j].resource.computed.conditions) :
                /\ j + k \in ConditionPositions
                /\ j + k \in ConditionsOf(response.entry[j].resource)

\* the subject references the Condition entries carry when they are grouped
\* by person, in the order of the persons
RECURSIVE grouped_references(_)
grouped_references(persons) ==
    IF persons = <<>> THEN <<>>
    ELSE [k \in DOMAIN persons[1].computed.conditions |-> reference_of(persons[1])]
         \o grouped_references(Tail(persons))

\* C9, amended: the entries of all matched persons (mode match) come first,
\* in matching order; all Condition entries (mode include) follow them,
\* grouped by person in the order of the person entries.
C9_PersonsThenConditions ==
    Responded =>
        LET n == Len(BundlePatients)
            refs == grouped_references(BundlePatients)
        IN  /\ PatientPositions = 1..n
            /\ \A i \in 1..n : response.entry[i].search.mode = "match"
            /\ Len(response.entry) = n + Len(refs)
            /\ \A m \in DOMAIN refs :
                  /\ response.entry[n + m].search.mode = "include"
                  /\ response.entry[n + m].resource.subject.reference = refs[m]

\* a bundle of at least two persons with conditions: the Condition entries
\* of the first person come after the entry of the second
C9_Witness ==
    /\ pc = "done"
    /\ Len(BundlePatients) >= 2
    /\ BundlePatients[1].computed.conditions # <<>>
    /\ BundlePatients[2].computed.conditions # <<>>
    /\ is_patient_entry(response.entry[2])

\* C10: the Condition entries are exactly one record per assigned condition
\* key of each person of the bundle: their number is the sum of the lengths
\* of the persons' condition lists, each person has as many as its list is
\* long, and none references a pool member that was filtered out or cut by
\* the limit.
C10_ConditionsOfBundlePersonsOnly ==
    Responded =>
        /\ Cardinality(ConditionPositions)
               = sum([i \in DOMAIN BundlePatients |->
                         Len(BundlePatients[i].computed.conditions)])
        /\ \A i \in DOMAIN BundlePatients :
              Cardinality(ConditionsOf(BundlePatients[i]))
                  = Len(BundlePatients[i].computed.conditions)
        /\ \A k \in DOMAIN patient_pool :
              patient_pool[k].id \notin BundlePatientIds
                  => ConditionsOf(patient_pool[k]) = {}

\* a bundle with Condition entries from a pool in which one person with
\* conditions was filtered out and another was cut by the limit
C10_Witness ==
    /\ pc = "done"
    /\ ConditionPositions # {}
    /\ \E k \in DOMAIN patient_pool :
          /\ patient_pool[k].computed.conditions # <<>>
          /\ patient_pool[k] \notin Range(filtered)
    /\ \E k \in DOMAIN filtered :
          /\ filtered[k].computed.conditions # <<>>
          /\ filtered[k].id \notin BundlePatientIds

\* C11: for the empty query process_query returns no conditions, an empty
\* age filter, no gender, limit 10 and the generic explanation, and
\* generate_response on those parameters does not raise and returns a bundle
\* of at least one and at most 10 Patient entries, whatever pool was generated.
C11_EmptyQueryBoundedBundle ==
    text = <<>> =>
        /\ pc # "idle" =>
              /\ params.conditions = <<>>
              /\ params.age_filter = EmptyDict
              /\ params.gender = None
              /\ params.limit = 10
              /\ explanation = GenericExplanation
        /\ pc # "raised"
        /\ Responded =>
              /\ Cardinality(PatientPositions) >= 1
              /\ Cardinality(PatientPositions) <= 10

\* the empty query answered from a pool of more than 10 persons
C11_Witness ==
    /\ pc = "done"
    /\ text = <<>>
    /\ Len(patient_pool) > 10
    /\ Cardinality(PatientPositions) = 10

\* what was detected, as far as the explanation is concerned
condition_detected == params.conditions # <<>>
gender_detected == params.gender # None
min_detected == "min_age" \in DOMAIN params.age_filter
max_detected == "max_age" \in DOMAIN params.age_filter

\* the sentence for the detected conditions, for the gender, for the age
conditions_sentence ==
    "Searching for patients with: " \o join(", ", params.conditions)
gender_sentence == "Gender: " \o params.gender
age_sentence ==
    CASE min_detected /\ max_detected ->
             "Age between " \o ToString(params.age_filter["min_age"])
                 \o " and " \o ToString(params.age_filter["max_age"])
      [] min_detected /\ ~max_detected ->
             "Age over " \o ToString(params.age_filter["min_age"])
      [] ~min_detected /\ max_detected ->
             "Age under " \o ToString(params.age_filter["max_age"])

\* C12: the explanation is the generic message exactly when no condition,
\* gender or age bound was detected; otherwise it is the detected parts
\* joined by "; " in the order conditions, gender, age, the age part reading
\* "between X and Y" for both bounds, "over X" for min_age alone and
\* "under X" for max_age alone.
C12_ExplanationOfDetectedParts ==
    pc = "parsed" =>
        LET age_detected == min_detected \/ max_detected
            c == IF condition_detected THEN conditions_sentence ELSE ""
            g == IF gender_detected THEN gender_sentence ELSE ""
            a == IF age_detected THEN age_sentence ELSE ""
            cg == IF condition_detected /\ (gender_detected \/ age_detected)
                  THEN "; " ELSE ""
            ga == IF gender_detected /\ age_detected THEN "; " ELSE ""
        IN  /\ (explanation = GenericExplanation)
                <=> ~(condition_detected \/ gender_detected \/ age_detected)
            /\ (condition_detected \/ gender_detected \/ age_detected)
                => explanation = c \o cg \o g \o ga \o a

\* a query in which conditions, a gender and an age bound were detected
C12_Witness ==
    /\ pc = "parsed"
    /\ condition_detected
    /\ gender_detected
    /\ max_detected

\* C13: for each of the five documented example queries the parameters
\* process_query extracts equal the documented expected_params: the same
\* condition list (no extra condition), the same age_filter keys and values,
\* the same gender, limit 10.
C13_ExamplesAsDocumented ==
    pc # "idle" =>
        \A i \in DOMAIN get_example_queries :
            text = get_example_queries[i].input
                => params = get_example_queries[i].expected_params

\* the example "Find heart disease patients", interpreted
C13_Witness ==
    /\ pc = "parsed"
    /\ text = get_example_queries[5].input
    /\ params.conditions = <<"heart disease">>

\* the text has no digit
no_digits == \A i \in DOMAIN text : ~IsDigit(text[i])

\* C14: for a text containing no digits process_query leaves age_filter
\* entirely unset, neither min_age nor max_age, whichever age keywords the
\* text contains.
C14_NoDigitsNoAgeFilter ==
    (pc = "parsed" /\ no_digits) =>
        /\ "min_age" \notin DOMAIN params.age_filter
        /\ "max_age" \notin DOMAIN params.age_filter

\* a text of age keywords and no digit, interpreted
C14_Witness ==
    /\ pc = "parsed"
    /\ no_digits
    /\ has_over(lower(text))
    /\ has_under(lower(text))
    /\ has_between(lower(text))

\* C15: after process_query, generate_response and get_summary_statistics
\* the four age_distribution counts (18-30, 31-50, 51-70, 71+) sum to
\* total_patients: the age of every returned person falls in exactly one
\* band, also when the age bounds of the query lie below 18.
C15_AgeBandsSumToTotal ==
    pc = "stats" =>
        stats.age_distribution.b18_30 + stats.age_distribution.b31_50
            + stats.age_distribution.b51_70 + stats.age_distribution.b71
        = stats.total_patients

\* the (person id, condition key) pairs of the persons, person by person
RECURSIVE assigned_keys(_)
assigned_keys(persons) ==
    IF persons = <<>> THEN <<>>
    ELSE [k \in DOMAIN persons[1].computed.conditions |->
             [id |-> persons[1].id, key |-> persons[1].computed.conditions[k]]]
         \o assigned_keys(Tail(persons))

\* the Condition resources of the bundle, in entry order
BundleConditions ==
    LET es == SelectSeq(response.entry, is_condition_entry)
    IN  [i \in DOMAIN es |-> es[i].resource]

\* C16: generate_condition yields a record for every condition key: for a
\* key of the catalog the record carries that key's code, display and
\* system; for a key outside the catalog (copd, stroke) it carries the fixed
\* fallback coding; and the record references the given patient id.
C16_ConditionRecordPerKey ==
    Responded =>
        LET made == assigned_keys(BundlePatients)
        IN  /\ Len(BundleConditions) = Len(made)
            /\ \A m \in DOMAIN made :
                  LET coding == BundleConditions[m].code.coding[1]
                  IN  /\ Len(BundleConditions[m].code.coding) = 1
                      /\ BundleConditions[m].subject.reference
                             = "Patient/" \o made[m].id
                      /\ BundleConditions[m].code.text = coding.display
                      /\ \A j \in DOMAIN condition_codes :
                            condition_codes[j].key = made[m].key
                                => /\ coding.code = condition_codes[j].code
                                   /\ coding.display = condition_codes[j].display
                                   /\ coding.system = condition_codes[j].system
                      /\ made[m].key \notin catalog_keys
                            => /\ coding.code = "R06.9"
                               /\ coding.display
                                      = "Unspecified abnormalities of breathing"
                               /\ coding.system
                                      = "http://hl7.org/fhir/sid/icd-10-cm"

\* a bundle with a record for the key copd, outside the catalog, and one for
\* the key cancer, inside it
C16_Witness ==
    /\ pc = "done"
    /\ \E m \in DOMAIN assigned_keys(BundlePatients) :
          /\ assigned_keys(BundlePatients)[m].key = "copd"
          /\ BundleConditions[m].code.coding[1].code = "R06.9"
    /\ \E m \in DOMAIN assigned_keys(BundlePatients) :
          /\ assigned_keys(BundlePatients)[m].key = "cancer"
          /\ BundleConditions[m].code.coding[1].code = "C80.1"

\* no key occurs twice in the list
distinct_keys(c) == \A i, j \in DOMAIN c : i # j => c[i] # c[j]

\* C17: the condition list of every pool person is empty, or one key of the
\* requested set, or min(2, number of requested keys) distinct keys of the
\* requested set, when conditions are requested; it is empty or one key of
\* the catalog when none are.  When the first check succeeds the list is a
\* single key, whatever the second check would give: the branch of several
\* conditions is taken only when the first check fails.  No person has more
\* than two conditions or the same condition twice.
C17_ConditionAssignment ==
    Responded =>
        LET requested == params.conditions
        IN  /\ \A k \in DOMAIN patient_pool :
                  LET c == patient_pool[k].computed.conditions
                  IN  /\ Len(c) <= 2
                      /\ distinct_keys(c)
                      /\ IF requested # <<>>
                         THEN /\ Range(c) \subseteq Range(requested)
                              /\ Len(c) \in {0, 1, Min(2, Len(requested))}
                         ELSE /\ Range(c) \subseteq catalog_keys
                              /\ Len(c) \in {0, 1}
            /\ \A second \in BOOLEAN :
                  \A c \in assign_conditions(requested, TRUE, second) :
                      Len(c) = 1

\* a pool generated for several requested conditions with a person of two
\* conditions and a person of one
C17_Witness ==
    /\ pc = "done"
    /\ Len(params.conditions) >= 2
    /\ \E k \in DOMAIN patient_pool :
          Len(patient_pool[k].computed.conditions) = 2
    /\ \E k \in DOMAIN patient_pool :
          Len(patient_pool[k].computed.conditions) = 1

\* the sum of the values of a function with a finite domain
RECURSIVE sum_of_values(_, _)
sum_of_values(f, S) ==
    IF S = {} THEN 0
    ELSE LET x == CHOOSE y \in S : TRUE
         IN  f[x] + sum_of_values(f, S \ {x})

\* the Condition entries of the bundle whose display text is nm
EntriesWithText(nm) ==
    {i \in ConditionPositions : response.entry[i].resource.code.text = nm}

\* C18: condition_distribution is computed from the Condition entries only
\* and keyed by display text: its keys are the display texts of the
\* Condition entries, the count under each is the number of Condition
\* entries with that text, the counts sum to total_conditions, and a person
\* with two conditions contributes two counts.
C18_ConditionDistribution ==
    pc = "stats" =>
        LET dist == stats.condition_distribution
        IN  /\ DOMAIN dist
                   = {response.entry[i].resource.code.text : i \in ConditionPositions}
            /\ \A nm \in DOMAIN dist : dist[nm] = Cardinality(EntriesWithText(nm))
            /\ sum_of_values(dist, DOMAIN dist) = stats.total_conditions
            /\ stats.total_conditions
                   = sum([i \in DOMAIN BundlePatients |->
                             Len(BundlePatients[i].computed.conditions)])

\* statistics of a bundle in which a person has two conditions and a display
\* text is counted more than once
C18_Witness ==
    /\ pc = "stats"
    /\ \E i \in DOMAIN BundlePatients :
          Len(BundlePatients[i].computed.conditions) = 2
    /\ \E nm \in DOMAIN stats.condition_distribution :
          stats.condition_distribution[nm] >= 2

=============================================================================
